---- MODULE Spec2Model ----
(***************************************************************************)
(* Model of the PDF/Image converter: the configuration resolver, the       *)
(* image-to-PDF converter and the PDF-to-image converter, in both forms    *)
(* the repository ships them: the package src/pdf_converter ("pkg") and    *)
(* the single-file script jpg2pdf.py ("mono").                             *)
(*                                                                         *)
(* File names are sequences of one-character strings, so that suffix,      *)
(* stem, splitext, lower(), sorted() and the {idx:03d} formatting are      *)
(* computed the way the code computes them.                                *)
(***************************************************************************)
EXTENDS Integers, Sequences, FiniteSets, TLC

VARIABLES
    impl,       \* which program is invoked: "pkg" (run_app.py) or "mono" (jpg2pdf.py)
    doc,        \* the configuration document on disk
    pc,         \* "idle" before the first process, "exited" after a process
    exitCode,   \* exit status of the last process (-1 before the first)
    settings,   \* the AppSettings load() returned to the last process
    log,        \* the records the last process sent to the logger
    inExists,   \* whether work_space/input_dir exists
    inFiles,    \* the entries under the input directory
    outExists,  \* whether work_space/output_dir exists
    outDirs,    \* the subdirectories of the output directory
    out,        \* the files under the output directory: path -> content
    clock,      \* the Unix time, in whole seconds
    runs,       \* how many processes have been started
    pre,        \* the output directory and the clock as the last converter found them
    proc        \* the processes running at the same time, each at its statement

vars == <<impl, doc, pc, exitCode, settings, log, inExists, inFiles,
          outExists, outDirs, out, clock, runs, pre, proc>>

(***************************************************************************)
(* Bounds of the model.                                                    *)
(***************************************************************************)
MaxFiles == 3
MaxRuns == 2
MaxDocEdits == 2

(***************************************************************************)
(* Characters and strings.                                                 *)
(***************************************************************************)
Alphabet ==
    <<"-", ".", "0", "1", "2", "3", "4", "5", "6", "7", "8", "9",
      "A", "B", "C", "D", "E", "F", "G", "J", "M", "N", "P",
      "_", "a", "b", "c", "d", "e", "f", "g", "i", "j", "k", "m", "n", "o",
      "p", "r", "t", "u", "w", "x">>

\* The rank of a character in code-point order (Alphabet is listed in that order).
CharRank ==
    [c \in {Alphabet[i] : i \in 1..Len(Alphabet)} |->
       CHOOSE i \in 1..Len(Alphabet) : Alphabet[i] = c]

CharCode(c) == CharRank[c]

CharLower(c) ==
    CASE c = "A" -> "a" [] c = "B" -> "b" [] c = "C" -> "c" [] c = "D" -> "d"
      [] c = "E" -> "e" [] c = "F" -> "f" [] c = "G" -> "g" [] c = "J" -> "j"
      [] c = "M" -> "m" [] c = "N" -> "n" [] c = "P" -> "p"
      [] OTHER -> c

StrLower(s) == [i \in 1..Len(s) |-> CharLower(s[i])]

\* str.rfind('.'), 0-based; -1 when there is no dot.
RFindDot(s) ==
    LET hits == {i \in 1..Len(s) : s[i] = "."}
    IN  IF hits = {} THEN -1
        ELSE (CHOOSE i \in hits : \A j \in hits : j <= i) - 1

\* Python's str comparison a < b: by code point, a proper prefix first.
RECURSIVE StrLess(_, _)
RECURSIVE StrLessAt(_, _, _, _)
StrLessAt(a, b, x, y) == IF x = y THEN StrLess(Tail(a), Tail(b)) ELSE x < y

StrLess(a, b) ==
    IF b = <<>> THEN FALSE
    ELSE IF a = <<>> THEN TRUE
    ELSE StrLessAt(a, b, CharCode(Head(a)), CharCode(Head(b)))

(***************************************************************************)
(* Paths and number formatting.                                            *)
(***************************************************************************)
SubStr(s, a, b) == [i \in 1..(b - a + 1) |-> s[a + i - 1]]

\* pathlib.PurePath.suffix: the last dot and what follows, unless that dot is
\* the first or the last character of the name.
PathSuffix(name) ==
    LET i == RFindDot(name)
    IN  IF 0 < i /\ i < Len(name) - 1 THEN SubStr(name, i + 1, Len(name)) ELSE <<>>

\* pathlib.PurePath.stem: the name without its suffix.
PathStem(name) ==
    LET i == RFindDot(name)
    IN  IF 0 < i /\ i < Len(name) - 1 THEN SubStr(name, 1, i) ELSE name

\* os.path.splitext: splits at the last dot unless only dots precede it.
SplitExt(p) ==
    LET dotIndex == RFindDot(p)
    IN  IF dotIndex >= 0 /\ \E k \in 1..dotIndex : p[k] # "."
        THEN <<SubStr(p, 1, dotIndex), SubStr(p, dotIndex + 1, Len(p))>>
        ELSE <<p, <<>> >>

DigitChar(d) == <<"0", "1", "2", "3", "4", "5", "6", "7", "8", "9">>[d + 1]

RECURSIVE NatStr(_)
NatStr(n) == IF n < 10 THEN <<DigitChar(n)>> ELSE NatStr(n \div 10) \o <<DigitChar(n % 10)>>

\* str(int)
IntStr(n) == IF n < 0 THEN <<"-">> \o NatStr(-n) ELSE NatStr(n)

RECURSIVE ZeroPad(_, _)
ZeroPad(s, w) == IF Len(s) >= w THEN s ELSE ZeroPad(<<"0">> \o s, w)

Format03d_Unpadded(idx) == IntStr(idx)

\* f"{idx:03d}": zero-padded to a width of at least three, the sign included.
Format03d(idx) ==
    IF idx < 0 THEN <<"-">> \o ZeroPad(NatStr(-idx), 2) ELSE ZeroPad(NatStr(idx), 3)

(***************************************************************************)
(* String literals of the code.                                            *)
(***************************************************************************)
S_merged_pdf == <<"m", "e", "r", "g", "e", "d", ".", "p", "d", "f">>
S_dot_pdf == <<".", "p", "d", "f">>
S_page_ == <<"p", "a", "g", "e", "_">>
S__page_ == <<"_", "p", "a", "g", "e", "_">>
S_png == <<"p", "n", "g">>
S_jpg == <<"j", "p", "g">>
S_jpeg == <<"j", "p", "e", "g">>
S_webp == <<"w", "e", "b", "p">>

IMG_EXTENSIONS ==
    { <<".", "j", "p", "g">>, <<".", "j", "p", "e", "g">>, <<".", "p", "n", "g">>,
      <<".", "w", "e", "b", "p">>, <<".", "b", "m", "p">> }

(***************************************************************************)
(* The logger.  A record holds the level, the message as the tokens of its *)
(* format string (the first token is how the message starts), and the      *)
(* file name the message carries, if any.                                  *)
(***************************************************************************)
Rec(lvl, msg, arg) == [lvl |-> lvl, msg |-> msg, arg |-> arg]
LogInfo(msg, arg) == Rec("INFO", msg, arg)
LogWarning(msg, arg) == Rec("WARNING", msg, arg)
LogError(msg, arg) == Rec("ERROR", msg, arg)

\* CustomFormatter.format: the colour a record is printed in.
FormatColor(rec) ==
    IF rec.lvl = "ERROR" THEN "RED"
    ELSE IF rec.lvl = "WARNING"
         THEN IF Len(rec.msg) > 0 /\ rec.msg[1] = "[OPT]" THEN "BLUE" ELSE "YELLOW"
         ELSE "NONE"

(***************************************************************************)
(* The configuration document: the tables under [Settings], flattened to   *)
(* <<table, key>> pairs.  present is the set of keys the document holds.   *)
(***************************************************************************)
T_Settings == "Settings"
T_Dirs == "Directories"
T_Pdf == "PdfOutputStrategy"
T_AG == "AutoGrouping"
T_Img == "ImageOutputStrategy"
T_Out == "Output"
T_Naming == "Naming"

KeyList ==
    << <<T_Settings, "work_mode">>,
       <<T_Dirs, "work_space">>, <<T_Dirs, "input_dir">>, <<T_Dirs, "output_dir">>,
       <<T_Pdf, "mode">>, <<T_Pdf, "output_name">>, <<T_Pdf, "overwrite_existing">>,
       <<T_AG, "enable">>, <<T_AG, "group_by">>, <<T_AG, "max_images_per_pdf">>,
       <<T_Img, "mode">>,
       <<T_Out, "image_format">>, <<T_Out, "dpi">>, <<T_Out, "color_mode">>,
       <<T_Out, "overwrite_existing">>,
       <<T_Naming, "page_naming">>, <<T_Naming, "start_index">> >>

AllKeys == {KeyList[i] : i \in 1..Len(KeyList)}
WorkModeKey == <<T_Settings, "work_mode">>
OptionalKeys == AllKeys \ {WorkModeKey}

\* The sub-table a parser is handed: settings_dict.get(table, {}).
Table(d, t) ==
    [present |-> {k[2] : k \in {q \in d.present : q[1] = t}},
     val |-> [key \in {k[2] : k \in {q \in d.present : q[1] = t}} |-> d.val[<<t, key>>]]]

WorkModes == {"img2pdf", "pdf2img"}
PdfModes == {"many_to_one", "one_to_one", "auto_grouping"}
GroupBys == {"none", "prefix", "directory", "metadata"}
ImgModes == {"one_to_one"}
ImageFormats == {S_png, S_jpg, S_jpeg, S_webp}
ColorModes == {"rgb", "grayscale"}
PageNamings == {"page_index", "original", "custom"}
NoChoices == {}

CWD == "<cwd>"
NoSettings == [work_mode |-> "<none>"]

(***************************************************************************)
(* ConfigHandler (pkg) / ConfigLoader (mono).                              *)
(***************************************************************************)
GetRequired_Defaulting(data, key, choices) ==
    IF key \notin data.present \/ (choices # {} /\ data.val[key] \notin choices)
    THEN [ok |-> TRUE, val |-> "img2pdf", why |-> <<>>]
    ELSE [ok |-> TRUE, val |-> data.val[key], why |-> <<>>]

\* _get_required: [ok, val, why]
GetRequired(data, key, choices) ==
    IF key \notin data.present
    THEN [ok |-> FALSE, val |-> "", why |-> <<"Missing required config key", key>>]
    ELSE IF choices # {} /\ data.val[key] \notin choices
    THEN [ok |-> FALSE, val |-> data.val[key], why |-> <<"Invalid value for", key>>]
    ELSE [ok |-> TRUE, val |-> data.val[key], why |-> <<>>]

MissingText(im) == IF im = "pkg" THEN "Mandatory config" ELSE "Optional config"

GetOptional_Untagged(im, data, key, default, choices) ==
    IF key \notin data.present \/ (choices # {} /\ data.val[key] \notin choices)
    THEN [val |-> default,
          log |-> <<LogWarning(<<MissingText(im), key, "missing. Using default">>, <<>>)>>]
    ELSE [val |-> data.val[key], log |-> <<>>]

\* _get_optional: [val, log]
GetOptional(im, data, key, default, choices) ==
    IF key \notin data.present
    THEN [val |-> default,
          log |-> <<LogWarning(<<MissingText(im), key, "missing. Using default">>, <<>>)>>]
    ELSE IF choices # {} /\ data.val[key] \notin choices
    THEN [val |-> default,
          log |-> <<LogWarning(<<"[OPT]", "Invalid option for", key,
                                 "Ignoring and using default">>, <<>>)>>]
    ELSE [val |-> data.val[key], log |-> <<>>]

DefaultInputDir(im) == IF im = "pkg" THEN "assets/input" ELSE "input"
DefaultOutputDir_AsInput(im) == DefaultInputDir(im)
DefaultOutputDir(im) == IF im = "pkg" THEN "assets/output" ELSE "output"

\* data.get(key, "")
GetOrEmpty(data, key) == IF key \in data.present THEN data.val[key] ELSE ""

\* _parse_directories: [val, log]
ParseDirectories(im, data) ==
    LET ws_str == GetOrEmpty(data, "work_space")
        inp_str == GetOrEmpty(data, "input_dir")
        out_str == GetOrEmpty(data, "output_dir")
    IN  [val |-> [work_space |-> IF ws_str # "" THEN ws_str ELSE CWD,
                  input_dir |-> IF inp_str # "" THEN inp_str ELSE DefaultInputDir(im),
                  output_dir |-> IF out_str # "" THEN out_str ELSE DefaultOutputDir(im)],
         log |-> (IF ws_str = ""
                  THEN <<LogWarning(<<"work_space not set.", "Using current directory.">>, <<>>)>>
                  ELSE <<>>)
              \o (IF inp_str = ""
                  THEN <<LogWarning(<<"input_dir not set.", "Using", DefaultInputDir(im)>>, <<>>)>>
                  ELSE <<>>)
              \o (IF out_str = ""
                  THEN <<LogWarning(<<"output_dir not set.", "Using", DefaultOutputDir(im)>>, <<>>)>>
                  ELSE <<>>)]

\* _parse_pdf_strategy: [val, log]
ParsePdfStrategy(im, data, ag_data) ==
    LET mode == GetOptional(im, data, "mode", "many_to_one", PdfModes)
        out_name == GetOptional(im, data, "output_name", S_merged_pdf, NoChoices)
        overwrite == GetOptional(im, data, "overwrite_existing", FALSE, NoChoices)
        enable == GetOptional(im, ag_data, "enable", FALSE, NoChoices)
        group_by == GetOptional(im, ag_data, "group_by", "none", GroupBys)
        max_images == GetOptional(im, ag_data, "max_images_per_pdf", 0, NoChoices)
    IN  [val |-> [mode |-> mode.val,
                  output_name |-> out_name.val,
                  overwrite_existing |-> overwrite.val,
                  auto_grouping |-> [enable |-> enable.val,
                                     group_by |-> group_by.val,
                                     max_images_per_pdf |-> max_images.val]],
         log |-> mode.log \o out_name.log \o overwrite.log
                 \o enable.log \o group_by.log \o max_images.log]

\* _parse_img_strategy: [val, log]
ParseImgStrategy(im, data, out_data, name_data) ==
    LET mode == GetOptional(im, data, "mode", "one_to_one", ImgModes)
        image_format == GetOptional(im, out_data, "image_format", S_png, ImageFormats)
        dpi == GetOptional(im, out_data, "dpi", 300, NoChoices)
        color_mode == GetOptional(im, out_data, "color_mode", "rgb", ColorModes)
        overwrite == GetOptional(im, out_data, "overwrite_existing", FALSE, NoChoices)
        page_naming == GetOptional(im, name_data, "page_naming", "page_index", PageNamings)
        start_index == GetOptional(im, name_data, "start_index", 1, NoChoices)
    IN  [val |-> [mode |-> mode.val,
                  output |-> [image_format |-> image_format.val,
                              dpi |-> dpi.val,
                              color_mode |-> color_mode.val,
                              overwrite_existing |-> overwrite.val],
                  naming |-> [page_naming |-> page_naming.val,
                              start_index |-> start_index.val]],
         log |-> mode.log \o image_format.log \o dpi.log \o color_mode.log
                 \o overwrite.log \o page_naming.log \o start_index.log]

\* How a failed load ends.  pkg: logger.error then sys.exit(1) inside load.
\* mono: ConfigError raised, then main logs "Configuration Error" and exits 1.
LoadFailure(im, why, traced) ==
    [ok |-> FALSE, settings |-> NoSettings,
     log |-> IF im = "pkg" THEN <<LogError(why, <<>>)>>
             ELSE (IF traced THEN <<LogError(why, <<>>)>> ELSE <<>>)
                  \o <<LogError(<<"Configuration Error">> \o why, <<>>)>>]

\* load(): [ok, settings, log]
ConfigLoad(im, d) ==
    IF d.file = "missing" THEN LoadFailure(im, <<"Config file not found">>, FALSE)
    ELSE IF d.file = "garbled" THEN LoadFailure(im, <<"Failed to parse TOML">>, TRUE)
    ELSE IF ~d.hasSettings \/ (im = "pkg" /\ d.present = {})
    THEN LoadFailure(im, <<"Missing [Settings] section in config.">>, FALSE)
    ELSE
      LET wm == GetRequired(Table(d, T_Settings), "work_mode", WorkModes)
          dirs == ParseDirectories(im, Table(d, T_Dirs))
          pdf == ParsePdfStrategy(im, Table(d, T_Pdf), Table(d, T_AG))
          img == ParseImgStrategy(im, Table(d, T_Img), Table(d, T_Out), Table(d, T_Naming))
      IN  IF ~wm.ok THEN LoadFailure(im, wm.why, FALSE)
          ELSE [ok |-> TRUE,
                settings |-> [work_mode |-> wm.val,
                              directories |-> dirs.val,
                              pdf_strategy |-> pdf.val,
                              img_strategy |-> img.val],
                log |-> dirs.log \o pdf.log \o img.log]

(***************************************************************************)
(* The file system.  An entry of the input directory is                    *)
(*   [name, isFile, nested, corrupt, pages, badPage]:                      *)
(* nested entries lie in a subdirectory, a corrupt file makes the codec    *)
(* raise, pages is the page count of a PDF and badPage the 1-based page    *)
(* whose save raises (0: none).  A path under the output directory is a    *)
(* sequence of names; out maps the paths of the files to their content.    *)
(***************************************************************************)
Entry(name, isFile, nested, corrupt, pages, badPage) ==
    [name |-> name, isFile |-> isFile, nested |-> nested, corrupt |-> corrupt,
     pages |-> pages, badPage |-> badPage]

\* What a file holds: who wrote it (0: it was there before the first process),
\* and for a PDF the images of its pages, for an image the page it shows.
OldFile == [kind |-> "old", writer |-> 0, pages |-> <<>>]
PdfFile(me, names) == [kind |-> "pdf", writer |-> me, pages |-> names]
ImageFile(me, pdf, i) == [kind |-> "image", writer |-> me, pages |-> <<pdf, IntStr(i)>>]
\* open(path, "wb") followed by an exception: the file is there, with no bytes.
EmptyFile(me) == [kind |-> "empty", writer |-> me, pages |-> <<>>]

PathExists_Never(files, dirs, path) == FALSE

\* Path.exists() for a path under the output directory.
PathExists(files, dirs, path) ==
    path \in DOMAIN files \/ (Len(path) = 1 /\ path[1] \in dirs)

PutFile(files, path, content) == (path :> content) @@ files

\* Path.glob("*"): the direct children, files and directories alike.
GlobAll(entries) == {e \in entries : ~e.nested}

EndsWith(s, t) == Len(s) >= Len(t) /\ SubStr(s, Len(s) - Len(t) + 1, Len(s)) = t

\* Path.glob("*.pdf"): the direct children whose name ends in ".pdf".
GlobPdf(entries) == {e \in entries : ~e.nested /\ EndsWith(e.name, S_dot_pdf)}

\* The orders in which a directory listing may return a set of entries.
RECURSIVE Listings(_)
Listings(S) ==
    IF S = {} THEN {<<>>}
    ELSE UNION { {<<x>> \o sq : sq \in Listings(S \ {x})} : x \in S }

RECURSIVE InsertSorted(_, _)
InsertSorted(e, sq) ==
    IF sq = <<>> THEN <<e>>
    ELSE IF StrLess(e.name, Head(sq).name) THEN <<e>> \o sq
    ELSE <<Head(sq)>> \o InsertSorted(e, Tail(sq))

\* sorted(paths): ascending by name.
RECURSIVE Sorted(_)
Sorted(sq) == IF sq = <<>> THEN <<>> ELSE InsertSorted(Head(sq), Sorted(Tail(sq)))

IsImage(e) == StrLower(PathSuffix(e.name)) \in IMG_EXTENSIONS /\ e.isFile

GatherImages_Unsorted(listing) == SelectSeq(listing, IsImage)

\* image_to_pdf.py line 22 / jpg2pdf.py lines 279-282
GatherImages(listing) == Sorted(SelectSeq(listing, IsImage))

\* The lists line 22 may build, one for each order glob("*") may list the
\* directory in.
ImageLists(entries) == {GatherImages(listing) : listing \in Listings(GlobAll(entries))}

IsPdfFile(e) == e.isFile

\* pdf_extractor.py line 19 / jpg2pdf.py lines 350-353
GatherPdfs(listing) == Sorted(SelectSeq(listing, IsPdfFile))

\* The lists line 19 may build, one for each order glob("*.pdf") may list the
\* directory in.
PdfLists(entries) == {GatherPdfs(listing) : listing \in Listings(GlobPdf(entries))}

Names(sq) == [i \in 1..Len(sq) |-> sq[i].name]

(***************************************************************************)
(* ImageToPdfConverter (pkg) / Img2PdfExecutor (mono).                     *)
(* A step yields [out, log]: the files afterwards and the records logged.  *)
(***************************************************************************)
\* with open(path, "wb") as f: f.write(img2pdf.convert(images)).
\* open() raises on a directory; otherwise it creates or truncates the file,
\* and a corrupt image makes convert() raise with the file left empty.
WritePdf(files, dirs, path, images, me) ==
    IF Len(path) = 1 /\ path[1] \in dirs
    THEN [ok |-> FALSE, out |-> files]
    ELSE IF \E i \in 1..Len(images) : images[i].corrupt
    THEN [ok |-> FALSE, out |-> PutFile(files, path, EmptyFile(me))]
    ELSE [ok |-> TRUE, out |-> PutFile(files, path, PdfFile(me, Names(images)))]

\* The records of one step, then those of the steps after it.
PrependLog(l, r) == [r EXCEPT !.log = l \o @]

\* The name a many_to_one output takes when its target exists and may not be
\* overwritten: base + "_" + int(timestamp) + ext.
RenamedOutputOf(parts, now) == parts[1] \o <<"_">> \o IntStr(now) \o parts[2]
RenamedOutput(output_name, now) == RenamedOutputOf(SplitExt(output_name), now)

\* The try block of _process_many_to_one, w being what the write did.
MergeOutcome(im, final_name, w) ==
    [out |-> w.out,
     log |-> IF w.ok
             THEN <<LogInfo(<<IF im = "pkg" THEN "Successfully merged"
                              ELSE "Successfully created">>, final_name)>>
             ELSE <<LogError(<<IF im = "pkg" THEN "Failed to merge images"
                               ELSE "Failed to create PDF">>, <<>>)>>]

MergeInto(im, files, dirs, images, me, final_name) ==
    MergeOutcome(im, final_name, WritePdf(files, dirs, <<final_name>>, images, me))

\* _process_many_to_one, output_name being cfg.output_name or "merged.pdf".
ManyToOneNamed(im, cfg, files, dirs, images, now, me, output_name) ==
    IF PathExists(files, dirs, <<output_name>>) /\ ~cfg.overwrite_existing
    THEN PrependLog(<<LogWarning(<<"Output file exists.", "Renaming to">>,
                                 RenamedOutput(output_name, now))>>,
                    MergeInto(im, files, dirs, images, me, RenamedOutput(output_name, now)))
    ELSE MergeInto(im, files, dirs, images, me, output_name)

\* _process_many_to_one
ProcessManyToOne(im, cfg, files, dirs, images, now, me) ==
    ManyToOneNamed(im, cfg, files, dirs, images, now, me,
                   IF cfg.output_name = <<>> THEN S_merged_pdf ELSE cfg.output_name)

\* The skip branch of the one_to_one loop: mono logs it, pkg only continues.
OneToOneSkipLog(im, output_name) ==
    IF im = "mono" THEN <<LogInfo(<<"Skipping", "(exists)">>, output_name)>> ELSE <<>>

\* The try block of the one_to_one loop, w being what the write did.
ConvertOutcome_Silent(img_path, w) ==
    [out |-> w.out,
     log |-> IF w.ok THEN <<LogInfo(<<"Converted">>, img_path.name)>> ELSE <<>>]

ConvertOutcome(img_path, w) ==
    [out |-> w.out,
     log |-> IF w.ok THEN <<LogInfo(<<"Converted">>, img_path.name)>>
             ELSE <<LogError(<<"Failed to convert">>, img_path.name)>>]

\* The body of the one_to_one loop for one image.
ConvertOne(im, cfg, files, dirs, img_path, me, output_name) ==
    IF PathExists(files, dirs, <<output_name>>) /\ ~cfg.overwrite_existing
    THEN [out |-> files, log |-> OneToOneSkipLog(im, output_name)]
    ELSE ConvertOutcome(img_path, WritePdf(files, dirs, <<output_name>>, <<img_path>>, me))

\* _process_one_to_one, from the first image of the list on; here is what
\* the first image did.
RECURSIVE ProcessOneToOne(_, _, _, _, _, _)
RECURSIVE OneToOneAfter(_, _, _, _, _, _)
OneToOneAfter(im, cfg, here, dirs, images, me) ==
    PrependLog(here.log, ProcessOneToOne(im, cfg, here.out, dirs, images, me))

ProcessOneToOne(im, cfg, files, dirs, images, me) ==
    IF images = <<>> THEN [out |-> files, log |-> <<>>]
    ELSE OneToOneAfter(im, cfg,
                       ConvertOne(im, cfg, files, dirs, Head(images), me,
                                  PathStem(Head(images).name) \o S_dot_pdf),
                       dirs, Tail(images), me)

FallbackWarning(im) ==
    LogWarning(<<"[OPT]", IF im = "pkg" THEN "Mode not fully implemented."
                          ELSE "Auto grouping not fully implemented.",
                 "Falling back to many_to_one.">>, <<>>)

DispatchPdfMode_FallbackOneToOne(im, cfg, files, dirs, images, now, me) ==
    IF cfg.mode = "many_to_one"
    THEN ProcessManyToOne(im, cfg, files, dirs, images, now, me)
    ELSE PrependLog(IF cfg.mode = "one_to_one" THEN <<>> ELSE <<FallbackWarning(im)>>,
                    ProcessOneToOne(im, cfg, files, dirs, images, me))

\* The dispatch on pdf_strategy.mode at the end of run().  pkg falls back in
\* its else branch, mono in an elif on "auto_grouping".
DispatchPdfMode(im, cfg, files, dirs, images, now, me) ==
    IF cfg.mode = "many_to_one"
    THEN ProcessManyToOne(im, cfg, files, dirs, images, now, me)
    ELSE IF cfg.mode = "one_to_one"
    THEN ProcessOneToOne(im, cfg, files, dirs, images, me)
    ELSE IF im = "pkg" \/ cfg.mode = "auto_grouping"
    THEN PrependLog(<<FallbackWarning(im)>>,
                    ProcessManyToOne(im, cfg, files, dirs, images, now, me))
    ELSE [out |-> files, log |-> <<>>]

MissingInput_CreatesOutput(outputExists, dirs, files) ==
    [outExists |-> TRUE, outDirs |-> dirs, out |-> files,
     log |-> <<LogError(<<"Input directory does not exist">>, <<>>)>>]

\* run() when the input directory does not exist: one error, then return.
MissingInput(outputExists, dirs, files) ==
    [outExists |-> outputExists, outDirs |-> dirs, out |-> files,
     log |-> <<LogError(<<"Input directory does not exist">>, <<>>)>>]

\* The end of run(), r being what the dispatched method did.
ImageRunOutcome(dirs, r) ==
    [outExists |-> TRUE, outDirs |-> dirs, out |-> r.out, log |-> r.log]

\* ImageToPdfConverter.run / Img2PdfExecutor.run: [outExists, outDirs, out, log];
\* images is the list line 22 builds from the directory listing.
ImageToPdfRun(im, cfg, inputExists, images, outputExists, dirs, files, now, me) ==
    PrependLog(
        <<LogInfo(<<IF im = "pkg" THEN "Starting ImageToPdfConverter in"
                    ELSE "Starting img2pdf mode in">>, <<>>)>>,
        IF ~inputExists THEN MissingInput(outputExists, dirs, files)
        ELSE IF images = <<>>
        THEN [outExists |-> TRUE, outDirs |-> dirs, out |-> files,
              log |-> <<LogWarning(<<"No images found in">>, <<>>)>>]
        ELSE ImageRunOutcome(dirs, DispatchPdfMode(im, cfg.pdf_strategy, files, dirs,
                                                   images, now, me)))

(***************************************************************************)
(* PDFExtractor (pkg) / Pdf2ImgExecutor (mono).                            *)
(***************************************************************************)
\* The name of the file a page is saved under; num is f"{idx:03d}".
PageFileNameOf(im, naming_mode, stem, num, fmt) ==
    IF im = "pkg"
    THEN IF naming_mode # "original"
         THEN S_page_ \o num \o <<".">> \o fmt
         ELSE stem \o S__page_ \o num \o <<".">> \o fmt
    ELSE IF naming_mode = "page_index" THEN S_page_ \o num \o <<".">> \o fmt
         ELSE IF naming_mode = "original" THEN stem \o S__page_ \o num \o <<".">> \o fmt
         ELSE S_page_ \o num \o <<".">> \o fmt

PageFileName(im, naming_mode, stem, idx, fmt) ==
    PageFileNameOf(im, naming_mode, stem, Format03d(idx), fmt)

\* image.save(out_path): the bad page of a PDF makes it raise; the file it had
\* just created is removed again, a file that was there before stays truncated.
SavePage(files, path, pdf, i, me) ==
    IF pdf.badPage = i + 1
    THEN [ok |-> FALSE,
          out |-> IF path \in DOMAIN files THEN PutFile(files, path, EmptyFile(me)) ELSE files]
    ELSE [ok |-> TRUE, out |-> PutFile(files, path, ImageFile(me, pdf.name, i))]

\* The skip branch of the page loop: mono logs it, pkg only continues.
PageSkipLog(im, fname) ==
    IF im = "mono" THEN <<LogInfo(<<"Skipping", "(exists)">>, fname)>> ELSE <<>>

\* for i, image in enumerate(images), from page i on: [ok, out, log].
\* ProcessPage is the loop body once fname is known, AfterSave what follows
\* image.save: an exception leaves the loop, otherwise the next page is taken.
RECURSIVE ProcessPages(_, _, _, _, _, _)
RECURSIVE ProcessPage(_, _, _, _, _, _, _)
RECURSIVE AfterSave(_, _, _, _, _, _, _)
AfterSave(im, cfg, pdf, i, me, fname, w) ==
    IF ~w.ok THEN [ok |-> FALSE, out |-> w.out, log |-> <<>>]
    ELSE PrependLog(<<LogInfo(<<"  Saved">>, fname)>>,
                    ProcessPages(im, cfg, w.out, pdf, i + 1, me))

ProcessPage(im, cfg, files, pdf, i, me, fname) ==
    IF <<PathStem(pdf.name), fname>> \in DOMAIN files /\ ~cfg.output.overwrite_existing
    THEN PrependLog(PageSkipLog(im, fname), ProcessPages(im, cfg, files, pdf, i + 1, me))
    ELSE AfterSave(im, cfg, pdf, i, me, fname,
                   SavePage(files, <<PathStem(pdf.name), fname>>, pdf, i, me))

ProcessPages(im, cfg, files, pdf, i, me) ==
    IF i >= pdf.pages THEN [ok |-> TRUE, out |-> files, log |-> <<>>]
    ELSE ProcessPage(im, cfg, files, pdf, i, me,
                     PageFileName(im, cfg.naming.page_naming, PathStem(pdf.name),
                                  cfg.naming.start_index + i, cfg.output.image_format))

PdfFailure(im, pdf) ==
    LogError(<<IF im = "pkg" THEN "Failed to extract PDF" ELSE "Failed to convert PDF">>,
             pdf.name)

\* The end of _process_pdf, r being what the page loop did.
PdfOutcome(im, dirs, pdf, r) ==
    [outDirs |-> dirs \cup {PathStem(pdf.name)}, out |-> r.out,
     log |-> r.log \o (IF r.ok THEN <<>> ELSE <<PdfFailure(im, pdf)>>)]

\* _process_pdf: [outDirs, out, log].  mkdir raises when a file has the name
\* of the subdirectory; convert_from_path raises on a corrupt PDF.
ProcessPdf(im, cfg, dirs, files, pdf, me) ==
    PrependLog(
        <<LogInfo(<<IF im = "pkg" THEN "Extracting PDF" ELSE "Processing PDF">>, pdf.name)>>,
        IF <<PathStem(pdf.name)>> \in DOMAIN files
        THEN [outDirs |-> dirs, out |-> files, log |-> <<PdfFailure(im, pdf)>>]
        ELSE IF pdf.corrupt
        THEN [outDirs |-> dirs \cup {PathStem(pdf.name)}, out |-> files,
              log |-> <<PdfFailure(im, pdf)>>]
        ELSE PdfOutcome(im, dirs, pdf, ProcessPages(im, cfg, files, pdf, 0, me)))

\* for pdf in pdfs: self._process_pdf(pdf); here is what the first PDF did.
RECURSIVE ProcessPdfs(_, _, _, _, _, _)
RECURSIVE ProcessPdfsAfter(_, _, _, _, _)
ProcessPdfsAfter(im, cfg, here, pdfs, me) ==
    PrependLog(here.log, ProcessPdfs(im, cfg, here.outDirs, here.out, pdfs, me))

ProcessPdfs(im, cfg, dirs, files, pdfs, me) ==
    IF pdfs = <<>> THEN [outDirs |-> dirs, out |-> files, log |-> <<>>]
    ELSE ProcessPdfsAfter(im, cfg, ProcessPdf(im, cfg, dirs, files, Head(pdfs), me),
                          Tail(pdfs), me)

\* The end of run(), r being what the loop over the PDFs did.
RunOutcome(r) == [outExists |-> TRUE, outDirs |-> r.outDirs, out |-> r.out, log |-> r.log]

\* PDFExtractor.run / Pdf2ImgExecutor.run: [outExists, outDirs, out, log];
\* pdfs is the list line 19 builds from the directory listing.
PdfToImageRun(im, cfg, inputExists, pdfs, outputExists, dirs, files, me) ==
    PrependLog(
        <<LogInfo(<<IF im = "pkg" THEN "Starting PDF Extractor in"
                    ELSE "Starting pdf2img mode in">>, <<>>)>>,
        IF ~inputExists THEN MissingInput(outputExists, dirs, files)
        ELSE IF pdfs = <<>>
        THEN [outExists |-> TRUE, outDirs |-> dirs, out |-> files,
              log |-> <<LogWarning(<<"No PDFs found in">>, <<>>)>>]
        ELSE RunOutcome(ProcessPdfs(im, cfg.img_strategy, dirs, files, pdfs, me)))

(***************************************************************************)
(* The inputs the model draws from.                                        *)
(***************************************************************************)
N_a_jpg == <<"a", ".", "j", "p", "g">>
N_a_png == <<"a", ".", "p", "n", "g">>
N_B_PNG == <<"B", ".", "P", "N", "G">>
N_d_png == <<"d", ".", "p", "n", "g">>
N_e_png == <<"e", ".", "p", "n", "g">>
N_k_jpg == <<"k", ".", "j", "p", "g">>
N_n_txt == <<"n", ".", "t", "x", "t">>
N_d_pdf == <<"d", ".", "p", "d", "f">>
N_e_pdf == <<"e", ".", "p", "d", "f">>
N_g_pdf == <<"g", ".", "p", "d", "f">>
N_k_pdf == <<"k", ".", "p", "d", "f">>
N_n_pdf == <<"n", ".", "p", "d", "f">>
N_a_pdf == <<"a", ".", "p", "d", "f">>
S_gif == <<"g", "i", "f">>
S_page_001_png == <<"p", "a", "g", "e", "_", "0", "0", "1", ".", "p", "n", "g">>

\* Entries an input directory of images may hold: images in both letter cases
\* (an upper-case name sorts before every lower-case one), two images of one stem, a text file, a directory named like an image, an
\* image inside a subdirectory, an image the codec rejects.
ImagePool ==
    { Entry(N_a_jpg, TRUE, FALSE, FALSE, 0, 0),
      Entry(N_a_png, TRUE, FALSE, FALSE, 0, 0),
      Entry(N_B_PNG, TRUE, FALSE, FALSE, 0, 0),
      Entry(N_n_txt, TRUE, FALSE, FALSE, 0, 0),
      Entry(N_d_png, FALSE, FALSE, FALSE, 0, 0),
      Entry(N_e_png, TRUE, TRUE, FALSE, 0, 0),
      Entry(N_k_jpg, TRUE, FALSE, TRUE, 0, 0) }

\* Entries an input directory of PDFs may hold: PDFs of three and two pages,
\* one whose second page cannot be saved, one the codec rejects, a directory named like a PDF, a PDF inside a subdirectory.
PdfPool ==
    { Entry(N_d_pdf, TRUE, FALSE, FALSE, 3, 0),
      Entry(N_e_pdf, TRUE, FALSE, FALSE, 3, 2),
      Entry(N_k_pdf, TRUE, FALSE, TRUE, 2, 0),
      Entry(N_g_pdf, FALSE, FALSE, FALSE, 0, 0),
      Entry(N_n_pdf, TRUE, TRUE, FALSE, 2, 0) }

\* The subsets of pool with at most n elements.
RECURSIVE UpTo(_, _)
UpTo(pool, n) ==
    IF n = 0 THEN {{}}
    ELSE LET R == UpTo(pool, n - 1) IN R \cup {T \cup {x} : T \in R, x \in pool}

\* The value functions of the documents that hold exactly the keys of P, each
\* with one of its candidate values.
RECURSIVE ValsFrom(_, _, _)
ValsFrom(i, P, cand) ==
    IF i > Len(KeyList) THEN {<<>>}
    ELSE IF KeyList[i] \notin P THEN ValsFrom(i + 1, P, cand)
    ELSE {(KeyList[i] :> v) @@ f : v \in cand[KeyList[i]], f \in ValsFrom(i + 1, P, cand)}

\* The parsed documents over the keys of `keys` that always hold the keys of
\* `fixed` and at most MaxDocEdits of the others.
Documents(keys, fixed, cand) ==
    UNION { { [file |-> "ok", hasSettings |-> TRUE, present |-> P, val |-> v] :
              v \in ValsFrom(1, P, cand) } :
            P \in {fixed \cup Q : Q \in UpTo(keys \ fixed, MaxDocEdits)} }

NoDocument == [file |-> "missing", hasSettings |-> FALSE, present |-> {}, val |-> <<>>]
GarbledDocument == [NoDocument EXCEPT !.file = "garbled"]
NoSettingsDocument == [NoDocument EXCEPT !.file = "ok"]

\* Two processes of the tool may run at the same time.
Procs == {1, 2}

\* A process: the statement it is at, the list run() built, what is left of
\* it, the target it is about to write, the items it has taken from the list,
\* the targets its collision check found free, the targets it has written,
\* and whether another process ran while it did.
IdleProc ==
    [pc |-> "idle", items |-> <<>>, todo |-> <<>>, target |-> <<>>, attempted |-> <<>>,
     free |-> {}, wrote |-> {}, overlapped |-> FALSE]

OffProc == [IdleProc EXCEPT !.pc = "off"]

NoPre == [op |-> "none", outExists |-> FALSE, outDirs |-> {}, out |-> <<>>, clock |-> 0]

(***************************************************************************)
(* The process: main() / bootstrap(), from its start to its exit.          *)
(***************************************************************************)
Snapshot(op) ==
    [op |-> op, outExists |-> outExists, outDirs |-> outDirs, out |-> out, clock |-> clock']

\* The tool is started, on the same document and directories as before; a
\* later process starts within the same second as the one before it or in a
\* later one.
Start ==
    /\ pc \in {"idle", "exited"}
    /\ runs < MaxRuns
    /\ runs' = runs + 1
    /\ clock' \in (IF runs = 0 THEN {clock} ELSE {clock, clock + 1})
    /\ pc' = "exited"
    /\ UNCHANGED <<impl, doc, inExists, inFiles, proc>>

WorkModeLog(im) == <<LogInfo(<<IF im = "pkg" THEN "Engine Work Mode" ELSE "Work Mode">>, <<>>)>>

\* load() fails: the process exits with status 1.
MainConfigError ==
    /\ Start
    /\ LET loaded == ConfigLoad(impl, doc)
       IN  /\ ~loaded.ok
           /\ log' = loaded.log
    /\ settings' = NoSettings
    /\ exitCode' = 1
    /\ UNCHANGED <<outExists, outDirs, out, pre>>

\* The converter has returned: what it did, and the exit with status 0.
Finish(loaded, r) ==
    /\ outExists' = r.outExists
    /\ outDirs' = r.outDirs
    /\ out' = r.out
    /\ log' = loaded.log \o WorkModeLog(impl) \o r.log
    /\ settings' = loaded.settings
    /\ exitCode' = 0

\* load() succeeds with work_mode "img2pdf": the image-to-PDF converter runs.
MainImg2Pdf ==
    /\ Start
    /\ LET loaded == ConfigLoad(impl, doc)
       IN  /\ loaded.ok
           /\ loaded.settings.work_mode = "img2pdf"
           /\ \E images \in ImageLists(inFiles) :
                Finish(loaded, ImageToPdfRun(impl, loaded.settings, inExists, images,
                                             outExists, outDirs, out, clock', runs'))
    /\ pre' = Snapshot("img2pdf")

\* load() succeeds with work_mode "pdf2img": the PDF-to-image converter runs.
MainPdf2Img ==
    /\ Start
    /\ LET loaded == ConfigLoad(impl, doc)
       IN  /\ loaded.ok
           /\ loaded.settings.work_mode = "pdf2img"
           /\ \E pdfs \in PdfLists(inFiles) :
                Finish(loaded, PdfToImageRun(impl, loaded.settings, inExists, pdfs,
                                             outExists, outDirs, out, runs'))
    /\ pre' = Snapshot("pdf2img")

InitProcess ==
    /\ impl \in {"pkg", "mono"}
    /\ pc = "idle"
    /\ exitCode = -1
    /\ settings = NoSettings
    /\ log = <<>>
    /\ clock = 0
    /\ runs = 0
    /\ pre = NoPre
    /\ proc = [p \in Procs |-> OffProc]

(***************************************************************************)
(* SpecCfg: every kind of document, one process, a small input directory.  *)
(***************************************************************************)
CfgCandidates ==
    [k \in AllKeys |->
       CASE k = WorkModeKey -> {"img2pdf", "pdf2img", "bogus"}
         [] k[1] = T_Dirs -> {"", "custom"}
         [] k = <<T_Pdf, "mode">> -> {"one_to_one", "auto_grouping", "bogus"}
         [] k = <<T_Pdf, "output_name">> -> {<<>>, N_a_pdf}
         [] k = <<T_Pdf, "overwrite_existing">> -> {TRUE, FALSE}
         [] k = <<T_AG, "enable">> -> {TRUE}
         [] k = <<T_AG, "group_by">> -> {"prefix", "bogus"}
         [] k = <<T_AG, "max_images_per_pdf">> -> {5}
         [] k = <<T_Img, "mode">> -> {"one_to_one", "bogus"}
         [] k = <<T_Out, "image_format">> -> {S_jpg, S_gif}
         [] k = <<T_Out, "dpi">> -> {150}
         [] k = <<T_Out, "color_mode">> -> {"grayscale", "bogus"}
         [] k = <<T_Out, "overwrite_existing">> -> {TRUE}
         [] k = <<T_Naming, "page_naming">> -> {"original", "custom", "bogus"}
         [] k = <<T_Naming, "start_index">> -> {5}]

CfgDocuments ==
    Documents(AllKeys, {}, CfgCandidates) \cup Documents(AllKeys, {WorkModeKey}, CfgCandidates)
        \cup {NoDocument, GarbledDocument, NoSettingsDocument}

CfgFiles ==
    { Entry(N_a_jpg, TRUE, FALSE, FALSE, 0, 0),
      Entry(N_B_PNG, TRUE, FALSE, FALSE, 0, 0),
      Entry(N_d_pdf, TRUE, FALSE, FALSE, 2, 0) }

InitCfg ==
    /\ InitProcess
    /\ doc \in CfgDocuments
    /\ inExists = TRUE
    /\ inFiles = CfgFiles
    /\ outExists = FALSE
    /\ outDirs = {}
    /\ out = <<>>

\* One process per document.
NextCfg == runs = 0 /\ (MainConfigError \/ MainImg2Pdf \/ MainPdf2Img)

SpecCfg == InitCfg /\ [][NextCfg]_vars

(***************************************************************************)
(* SpecImg: image-to-PDF processes, one after the other, on one document   *)
(* and one pair of directories.                                            *)
(***************************************************************************)
ImgKeys ==
    {WorkModeKey, <<T_Pdf, "mode">>, <<T_Pdf, "output_name">>, <<T_Pdf, "overwrite_existing">>}

ImgCandidates ==
    [k \in ImgKeys |->
       CASE k = WorkModeKey -> {"img2pdf"}
         [] k = <<T_Pdf, "mode">> -> {"one_to_one", "auto_grouping"}
         [] k = <<T_Pdf, "output_name">> -> {<<>>, N_a_pdf}
         [] k = <<T_Pdf, "overwrite_existing">> -> {TRUE}]

\* The output directory before the first process: not there, or holding
\* files of the names the converter will want.
ImgOutputs ==
    { [exists |-> FALSE, dirs |-> {}, files |-> <<>>],
      [exists |-> TRUE, dirs |-> {},
       files |-> (<<S_merged_pdf>> :> OldFile) @@ (<<N_a_pdf>> :> OldFile)] }

InitImg ==
    /\ InitProcess
    /\ doc \in Documents(ImgKeys, {WorkModeKey}, ImgCandidates)
    /\ \/ inExists = TRUE /\ inFiles \in UpTo(ImagePool, MaxFiles)
       \/ inExists = FALSE /\ inFiles = {}
    /\ \E o \in ImgOutputs : outExists = o.exists /\ outDirs = o.dirs /\ out = o.files

NextImg == MainImg2Pdf

SpecImg == InitImg /\ [][NextImg]_vars

(***************************************************************************)
(* SpecPdf: PDF-to-image processes, one after the other.                   *)
(***************************************************************************)
PdfKeys ==
    {WorkModeKey, <<T_Out, "image_format">>, <<T_Out, "overwrite_existing">>,
     <<T_Naming, "page_naming">>, <<T_Naming, "start_index">>}

PdfCandidates ==
    [k \in PdfKeys |->
       CASE k = WorkModeKey -> {"pdf2img"}
         [] k = <<T_Out, "image_format">> -> {S_jpg}
         [] k = <<T_Out, "overwrite_existing">> -> {TRUE}
         [] k = <<T_Naming, "page_naming">> -> {"original", "custom"}
         [] k = <<T_Naming, "start_index">> -> {5, 998, -1}]

PdfOutputs ==
    { [exists |-> FALSE, dirs |-> {}, files |-> <<>>],
      [exists |-> TRUE, dirs |-> {<<"d">>},
       files |-> (<< <<"d">>, S_page_001_png >> :> OldFile)] }

InitPdf ==
    /\ InitProcess
    /\ doc \in Documents(PdfKeys, {WorkModeKey}, PdfCandidates)
    /\ \/ inExists = TRUE /\ inFiles \in UpTo(PdfPool, MaxFiles)
       \/ inExists = FALSE /\ inFiles = {}
    /\ \E o \in PdfOutputs : outExists = o.exists /\ outDirs = o.dirs /\ out = o.files

NextPdf == MainPdf2Img

SpecPdf == InitPdf /\ [][NextPdf]_vars

(***************************************************************************)
(* SpecRun: the processes of SpecImg and those of SpecPdf.                 *)
(***************************************************************************)
InitRun == InitImg \/ InitPdf

NextRun == MainImg2Pdf \/ MainPdf2Img

SpecRun == InitRun /\ [][NextRun]_vars

(***************************************************************************)
(* SpecSteps: processes of the tool running at the same time on one        *)
(* document and one pair of directories, each a statement at a time: the   *)
(* collision check of a target and the write that follows it are two       *)
(* steps, and another process may take steps between them.                 *)
(***************************************************************************)
Active(p) ==
    proc[p].pc \in {"merge_check", "merge_write", "item_check", "item_write", "pdf_item"}

\* main() up to the first statement of the dispatched method.
StartingLog(im, work_mode) ==
    <<LogInfo(<<IF work_mode = "img2pdf"
                THEN (IF im = "pkg" THEN "Starting ImageToPdfConverter in"
                      ELSE "Starting img2pdf mode in")
                ELSE (IF im = "pkg" THEN "Starting PDF Extractor in"
                      ELSE "Starting pdf2img mode in")>>, <<>>)>>

NothingFoundLog(work_mode) ==
    <<LogWarning(<<IF work_mode = "img2pdf" THEN "No images found in"
                   ELSE "No PDFs found in">>, <<>>)>>

\* Where run() goes once it has its list of items.
FirstStatement(im, cfg, items) ==
    IF ~inExists \/ items = <<>> THEN "done"
    ELSE IF cfg.work_mode = "pdf2img" THEN "pdf_item"
    ELSE IF cfg.pdf_strategy.mode = "one_to_one" THEN "item_check"
    ELSE "merge_check"

BeginLog(im, cfg, items) ==
    WorkModeLog(im) \o StartingLog(im, cfg.work_mode)
    \o (IF ~inExists THEN MissingInput(outExists, outDirs, out).log
        ELSE IF items = <<>> THEN NothingFoundLog(cfg.work_mode)
        ELSE IF cfg.work_mode = "img2pdf"
                /\ cfg.pdf_strategy.mode \notin {"many_to_one", "one_to_one"}
        THEN <<FallbackWarning(im)>>
        ELSE <<>>)

\* Every process running while another one begins has overlapped with it.
Overlapping(p, next) ==
    [q \in Procs |->
       IF q = p
       THEN [next EXCEPT !.overlapped = \E r \in Procs \ {p} : Active(r)]
       ELSE IF Active(q) /\ next.pc # "done"
       THEN [proc[q] EXCEPT !.overlapped = TRUE]
       ELSE proc[q]]

\* The next item of the loop, or the end of run().
Advance(p, pcNext, rest) ==
    [proc[p] EXCEPT !.pc = IF rest = <<>> THEN "done" ELSE pcNext,
                    !.todo = rest,
                    !.target = <<>>]

\* main(): load(), then run() up to its dispatch.
RunBegin(p) ==
    /\ proc[p].pc = "idle"
    /\ LET loaded == ConfigLoad(impl, doc)
       IN  /\ loaded.ok
           /\ settings' = loaded.settings
           /\ \E items \in (IF loaded.settings.work_mode = "img2pdf"
                            THEN ImageLists(inFiles) ELSE PdfLists(inFiles)) :
                /\ proc' = Overlapping(p,
                             [proc[p] EXCEPT
                                !.pc = FirstStatement(impl, loaded.settings, items),
                                !.items = IF inExists THEN items ELSE <<>>,
                                !.todo = IF inExists THEN items ELSE <<>>])
                /\ log' = log \o loaded.log \o BeginLog(impl, loaded.settings, items)
    /\ outExists' = (outExists \/ inExists)
    /\ UNCHANGED <<impl, doc, pc, exitCode, inExists, inFiles, outDirs, out, clock, runs, pre>>

\* _process_many_to_one up to the try statement: the collision check.
MergeCheckNamed(p, output_name) ==
    /\ IF PathExists(out, outDirs, <<output_name>>)
          /\ ~settings.pdf_strategy.overwrite_existing
       THEN /\ proc' = [proc EXCEPT ![p].pc = "merge_write",
                                    ![p].target = RenamedOutput(output_name, clock)]
            /\ log' = log \o <<LogWarning(<<"Output file exists.", "Renaming to">>,
                                          RenamedOutput(output_name, clock))>>
       ELSE /\ proc' = [proc EXCEPT
                          ![p].pc = "merge_write",
                          ![p].target = output_name,
                          ![p].free = IF PathExists(out, outDirs, <<output_name>>)
                                      THEN @ ELSE @ \cup {output_name}]
            /\ log' = log

MergeCheck(p) ==
    /\ proc[p].pc = "merge_check"
    /\ MergeCheckNamed(p, IF settings.pdf_strategy.output_name = <<>> THEN S_merged_pdf
                          ELSE settings.pdf_strategy.output_name)
    /\ UNCHANGED <<impl, doc, pc, exitCode, settings, inExists, inFiles,
                   outExists, outDirs, out, clock, runs, pre>>

\* The try statement of _process_many_to_one.
MergeWriteDone(p, r) ==
    /\ out' = r.out
    /\ log' = log \o r.log
    /\ proc' = [proc EXCEPT ![p].pc = "done",
                            ![p].wrote = @ \cup {proc[p].target}]

MergeWrite(p) ==
    /\ proc[p].pc = "merge_write"
    /\ MergeWriteDone(p, MergeInto(impl, out, outDirs, proc[p].items, p, proc[p].target))
    /\ UNCHANGED <<impl, doc, pc, exitCode, settings, inExists, inFiles,
                   outExists, outDirs, clock, runs, pre>>

\* The one_to_one loop up to its try statement, for the image it has reached.
ItemCheckNamed(p, img_path, output_name) ==
    IF PathExists(out, outDirs, <<output_name>>) /\ ~settings.pdf_strategy.overwrite_existing
    THEN /\ proc' = [proc EXCEPT
                       ![p] = [Advance(p, "item_check", Tail(proc[p].todo))
                                 EXCEPT !.attempted = Append(@, img_path.name)]]
         /\ log' = log \o OneToOneSkipLog(impl, output_name)
    ELSE /\ proc' = [proc EXCEPT
                       ![p].pc = "item_write",
                       ![p].target = output_name,
                       ![p].attempted = Append(@, img_path.name),
                       ![p].free = IF PathExists(out, outDirs, <<output_name>>)
                                   THEN @ ELSE @ \cup {output_name}]
         /\ log' = log

ItemCheck(p) ==
    /\ proc[p].pc = "item_check"
    /\ ItemCheckNamed(p, Head(proc[p].todo), PathStem(Head(proc[p].todo).name) \o S_dot_pdf)
    /\ UNCHANGED <<impl, doc, pc, exitCode, settings, inExists, inFiles,
                   outExists, outDirs, out, clock, runs, pre>>

\* The try statement of the one_to_one loop, then the next image.
ItemWriteDone(p, r) ==
    /\ out' = r.out
    /\ log' = log \o r.log
    /\ proc' = [proc EXCEPT
                  ![p] = [Advance(p, "item_check", Tail(proc[p].todo))
                            EXCEPT !.wrote = @ \cup {proc[p].target}]]

ItemWrite(p) ==
    /\ proc[p].pc = "item_write"
    /\ ItemWriteDone(p, ConvertOutcome(Head(proc[p].todo),
                                       WritePdf(out, outDirs, <<proc[p].target>>,
                                                <<Head(proc[p].todo)>>, p)))
    /\ UNCHANGED <<impl, doc, pc, exitCode, settings, inExists, inFiles,
                   outExists, outDirs, clock, runs, pre>>

\* self._process_pdf(pdf) for the PDF the loop of run() has reached.
PdfItemDone(p, pdf, r) ==
    /\ outDirs' = r.outDirs
    /\ out' = r.out
    /\ log' = log \o r.log
    /\ proc' = [proc EXCEPT
                  ![p] = [Advance(p, "pdf_item", Tail(proc[p].todo))
                            EXCEPT !.attempted = Append(@, pdf.name)]]

PdfItem(p) ==
    /\ proc[p].pc = "pdf_item"
    /\ PdfItemDone(p, Head(proc[p].todo),
                   ProcessPdf(impl, settings.img_strategy, outDirs, out,
                              Head(proc[p].todo), p))
    /\ UNCHANGED <<impl, doc, pc, exitCode, settings, inExists, inFiles,
                   outExists, clock, runs, pre>>

\* The statements of run() after the list is built.
Running(p) ==
    \/ MergeCheck(p)
    \/ MergeWrite(p)
    \/ ItemCheck(p)
    \/ ItemWrite(p)
    \/ PdfItem(p)

StepOf(p) == RunBegin(p) \/ Running(p)

\* Documents of the runs that go item by item or check before they write.
StepKeys == {WorkModeKey, <<T_Pdf, "mode">>, <<T_Pdf, "overwrite_existing">>,
             <<T_Out, "overwrite_existing">>}

StepCandidates ==
    [k \in StepKeys |->
       CASE k = WorkModeKey -> {"img2pdf", "pdf2img"}
         [] k = <<T_Pdf, "mode">> -> {"one_to_one"}
         [] k = <<T_Pdf, "overwrite_existing">> -> {TRUE}
         [] k = <<T_Out, "overwrite_existing">> -> {TRUE}]

StepImagePool ==
    { Entry(N_a_jpg, TRUE, FALSE, TRUE, 0, 0),
      Entry(N_a_png, TRUE, FALSE, FALSE, 0, 0),
      Entry(N_k_jpg, TRUE, FALSE, TRUE, 0, 0),
      Entry(N_n_txt, TRUE, FALSE, FALSE, 0, 0) }

StepPdfPool ==
    { Entry(N_d_pdf, TRUE, FALSE, FALSE, 3, 0),
      Entry(N_e_pdf, TRUE, FALSE, FALSE, 3, 2),
      Entry(N_k_pdf, TRUE, FALSE, TRUE, 2, 0) }

InitStepFiles ==
    /\ impl \in {"pkg", "mono"}
    /\ pc = "idle"
    /\ exitCode = -1
    /\ settings = NoSettings
    /\ log = <<>>
    /\ clock = 0
    /\ runs = 0
    /\ doc \in Documents(StepKeys, {WorkModeKey}, StepCandidates)
    /\ \/ inExists = TRUE /\ inFiles \in UpTo(StepImagePool, MaxFiles)
       \/ inExists = TRUE /\ inFiles \in UpTo(StepPdfPool, MaxFiles)
       \/ inExists = FALSE /\ inFiles = {}
    /\ \E o \in ImgOutputs : outExists = o.exists /\ outDirs = o.dirs /\ out = o.files
    /\ pre = [op |-> "none", outExists |-> outExists, outDirs |-> outDirs,
              out |-> out, clock |-> clock]

InitSteps == InitStepFiles /\ proc = [p \in Procs |-> IdleProc]

NextSteps == \E p \in Procs : StepOf(p)

SpecSteps == InitSteps /\ [][NextSteps]_vars

(***************************************************************************)
(* SpecItems: one process alone, a statement at a time.  A process that    *)
(* has a statement to execute executes it: nothing in run() waits.         *)
(***************************************************************************)
InitItems == InitStepFiles /\ proc = [p \in Procs |-> IF p = 1 THEN IdleProc ELSE OffProc]

NextItems == StepOf(1)

SpecItems == InitItems /\ [][NextItems]_vars /\ WF_vars(Running(1))

(***************************************************************************)
(* Claims about the configuration resolver, checked under SpecCfg.         *)
(***************************************************************************)
HasError == \E i \in 1..Len(log) : log[i].lvl = "ERROR"
NothingWritten == outExists = FALSE /\ outDirs = {} /\ out = <<>> /\ pre = NoPre
ConverterStarted == \E i \in 1..Len(log) : log[i].lvl = "INFO"

LacksValidWorkMode ==
    /\ doc.file = "ok"
    /\ doc.hasSettings
    /\ (WorkModeKey \notin doc.present \/ doc.val[WorkModeKey] \notin {"img2pdf", "pdf2img"})

\* C1: a document whose Settings table has no work_mode, or a work_mode other
\* than img2pdf/pdf2img, never gets past the loader: the process exits with
\* status 1 after logging an error, no converter starts (nothing is logged at
\* INFO level, which every converter does first), and no file or
\* directory is written, whatever the other keys hold.
C1_MissingWorkModeIsFatal ==
    LacksValidWorkMode =>
        /\ settings = NoSettings
        /\ NothingWritten
        /\ ~ConverterStarted
        /\ (pc = "exited" => exitCode = 1 /\ HasError)

C1_Witness ==
    /\ LacksValidWorkMode
    /\ pc = "exited"
    /\ \E k \in OptionalKeys : k \in doc.present
    /\ exitCode = 1

OnlyWorkMode ==
    /\ doc.file = "ok"
    /\ doc.hasSettings
    /\ doc.present = {WorkModeKey}
    /\ doc.val[WorkModeKey] \in {"img2pdf", "pdf2img"}

\* C2: a document with a valid work_mode and no optional key resolves to the
\* defaults table exactly.
C2_DefaultsTable ==
    (OnlyWorkMode /\ pc = "exited") =>
        /\ settings.work_mode = doc.val[WorkModeKey]
        /\ settings.directories.work_space = CWD
        /\ <<settings.directories.input_dir, settings.directories.output_dir>>
             \in {<<"input", "output">>, <<"assets/input", "assets/output">>}
        /\ settings.pdf_strategy =
             [mode |-> "many_to_one",
              output_name |-> <<"m", "e", "r", "g", "e", "d", ".", "p", "d", "f">>,
              overwrite_existing |-> FALSE,
              auto_grouping |-> [enable |-> FALSE, group_by |-> "none",
                                 max_images_per_pdf |-> 0]]
        /\ settings.img_strategy =
             [mode |-> "one_to_one",
              output |-> [image_format |-> <<"p", "n", "g">>, dpi |-> 300,
                          color_mode |-> "rgb", overwrite_existing |-> FALSE],
              naming |-> [page_naming |-> "page_index", start_index |-> 1]]

C2_Witness == OnlyWorkMode /\ pc = "exited" /\ exitCode = 0

EnumKeys ==
    { <<T_Pdf, "mode">>, <<T_AG, "group_by">>, <<T_Img, "mode">>,
      <<T_Out, "image_format">>, <<T_Out, "color_mode">>, <<T_Naming, "page_naming">> }

EnumChoices(k) ==
    CASE k = <<T_Pdf, "mode">> -> {"many_to_one", "one_to_one", "auto_grouping"}
      [] k = <<T_AG, "group_by">> -> {"none", "prefix", "directory", "metadata"}
      [] k = <<T_Img, "mode">> -> {"one_to_one"}
      [] k = <<T_Out, "image_format">> -> {S_png, S_jpg, S_jpeg, S_webp}
      [] k = <<T_Out, "color_mode">> -> {"rgb", "grayscale"}
      [] k = <<T_Naming, "page_naming">> -> {"page_index", "original", "custom"}

EnumDefault(k) ==
    CASE k = <<T_Pdf, "mode">> -> "many_to_one"
      [] k = <<T_AG, "group_by">> -> "none"
      [] k = <<T_Img, "mode">> -> "one_to_one"
      [] k = <<T_Out, "image_format">> -> S_png
      [] k = <<T_Out, "color_mode">> -> "rgb"
      [] k = <<T_Naming, "page_naming">> -> "page_index"

Resolved(k) ==
    CASE k = <<T_Pdf, "mode">> -> settings.pdf_strategy.mode
      [] k = <<T_AG, "group_by">> -> settings.pdf_strategy.auto_grouping.group_by
      [] k = <<T_Img, "mode">> -> settings.img_strategy.mode
      [] k = <<T_Out, "image_format">> -> settings.img_strategy.output.image_format
      [] k = <<T_Out, "color_mode">> -> settings.img_strategy.output.color_mode
      [] k = <<T_Naming, "page_naming">> -> settings.img_strategy.naming.page_naming

InvalidEnum(k) == k \in doc.present /\ doc.val[k] \notin EnumChoices(k)

\* The warnings of the log that name key `name`, by the class the formatter
\* puts them in: "BLUE" for the "[OPT]" tag, "YELLOW" for every other warning.
WarningsNaming(name, color) ==
    {i \in 1..Len(log) :
       /\ log[i].lvl = "WARNING"
       /\ FormatColor(log[i]) = color
       /\ (color = "BLUE") = (log[i].msg[1] = "[OPT]")
       /\ \E j \in 1..Len(log[i].msg) : log[i].msg[j] = name}

\* C3: for every optional key with a choice set, a value outside the set
\* resolves to the default with exactly one "[OPT]"-tagged warning for it, an
\* absent key resolves to the same default with exactly one untagged warning,
\* no warning is of the other class, and the load still succeeds.
C3_InvalidOptionIsTaggedFallback ==
    (doc.file = "ok" /\ doc.hasSettings /\ ~LacksValidWorkMode /\ pc = "exited") =>
        /\ settings # NoSettings
        /\ exitCode # 1
        /\ \A k \in EnumKeys :
             /\ (InvalidEnum(k) \/ k \notin doc.present) => Resolved(k) = EnumDefault(k)
             /\ Cardinality(WarningsNaming(k[2], "BLUE"))
                  = Cardinality({q \in EnumKeys : q[2] = k[2] /\ InvalidEnum(q)})
             /\ Cardinality(WarningsNaming(k[2], "YELLOW"))
                  = Cardinality({q \in EnumKeys : q[2] = k[2] /\ q \notin doc.present})

C3_Witness ==
    /\ pc = "exited"
    /\ InvalidEnum(<<T_Out, "color_mode">>)
    /\ InvalidEnum(<<T_Pdf, "mode">>)
    /\ <<T_Img, "mode">> \notin doc.present

(***************************************************************************)
(* Claims about the image-to-PDF converter, checked under SpecImg.         *)
(***************************************************************************)
RanImg2Pdf == pc = "exited" /\ exitCode = 0 /\ pre.op = "img2pdf"

\* The files the last run left as it found them.
Untouched(paths) == \A p \in paths : p \in DOMAIN out /\ out[p] = pre.out[p]

\* C4: with overwrite_existing = false, no many_to_one run of a sequence of
\* runs modifies or replaces a file that existed when the run started; a run
\* whose target exists warns and writes a file of another name instead.
C4_ManyToOneNeverReplaces ==
    (/\ RanImg2Pdf
     /\ settings.pdf_strategy.mode = "many_to_one"
     /\ ~settings.pdf_strategy.overwrite_existing)
        => Untouched(DOMAIN pre.out)

\* What C4 says short of the case it fails in: a run that starts in another
\* second than every earlier renaming run leaves all earlier files untouched.
C4_HoldsAcrossSeconds ==
    (/\ RanImg2Pdf
     /\ settings.pdf_strategy.mode = "many_to_one"
     /\ ~settings.pdf_strategy.overwrite_existing
     /\ \A p \in DOMAIN pre.out : pre.out[p].writer = 0)
        => Untouched(DOMAIN pre.out)

\* The images a run of the converter finds: the regular files directly in the
\* input directory whose name ends, in any letter case, in a dot and one of
\* the five extensions.
ImageExtensionNames ==
    { <<"j", "p", "g">>, <<"j", "p", "e", "g">>, <<"p", "n", "g">>,
      <<"w", "e", "b", "p">>, <<"b", "m", "p">> }

HasImageExtension(name) ==
    \E x \in ImageExtensionNames :
        Len(name) > Len(x) + 1 /\ EndsWith(StrLower(name), <<".">> \o x)

DiscoveredImages ==
    IF inExists
    THEN {e \in inFiles : ~e.nested /\ e.isFile /\ HasImageExtension(e.name)}
    ELSE {}

StemPdf(name) == SubStr(name, 1, RFindDot(name)) \o <<".", "p", "d", "f">>

SkipsLogged(names) ==
    \A n \in names :
        \E i \in 1..Len(log) :
            log[i].lvl = "INFO" /\ log[i].msg[1] = "Skipping" /\ log[i].arg = n

\* C5: with overwrite_existing = false, a second one_to_one run over the same
\* directories creates no file, changes no file, renames nothing, and logs a
\* skip at INFO level for every image, its <stem>.pdf being there already.
C5_SecondOneToOneRunSkips ==
    (/\ RanImg2Pdf
     /\ runs >= 2
     /\ settings.pdf_strategy.mode = "one_to_one"
     /\ ~settings.pdf_strategy.overwrite_existing)
        => /\ out = pre.out
           /\ SkipsLogged({StemPdf(e.name) : e \in DiscoveredImages})

\* The part of C5 that holds in both programs: the second run leaves the
\* output directory exactly as it found it.
C5_SecondRunWritesNothing ==
    (/\ RanImg2Pdf
     /\ runs >= 2
     /\ settings.pdf_strategy.mode = "one_to_one"
     /\ ~settings.pdf_strategy.overwrite_existing)
        => out = pre.out /\ outDirs = pre.outDirs

MergedByLastRun == {p \in DOMAIN out : out[p].kind = "pdf" /\ out[p].writer = runs}

Ascending(names) == \A i, j \in 1..Len(names) : i < j => StrLess(names[i], names[j])

\* C6: the images a merging run merges are exactly the regular files directly
\* inside the input directory whose extension is, in any letter case, one of
\* jpg, jpeg, png, webp, bmp; they appear in the merged PDF in ascending
\* order of filename, whatever order the directory listing had.
C6_MergedImagesSortedAndFiltered ==
    (RanImg2Pdf /\ settings.pdf_strategy.mode # "one_to_one") =>
        /\ \A p \in MergedByLastRun :
             /\ {out[p].pages[i] : i \in 1..Len(out[p].pages)}
                  = {e.name : e \in DiscoveredImages}
             /\ Len(out[p].pages) = Cardinality(DiscoveredImages)
             /\ Ascending(out[p].pages)
        /\ (DiscoveredImages # {} /\ \A e \in DiscoveredImages : ~e.corrupt)
             => MergedByLastRun # {}

C6_Witness ==
    /\ RanImg2Pdf
    /\ \E p \in MergedByLastRun :
         out[p].pages = << <<"B", ".", "P", "N", "G">>, <<"a", ".", "j", "p", "g">> >>
    /\ \E e \in inFiles : e.nested \/ ~e.isFile
FallbackWarnings ==
    {i \in 1..Len(log) : /\ log[i].lvl = "WARNING"
                         /\ log[i].msg[1] = "[OPT]"
                         /\ log[i].msg[Len(log[i].msg)] = "Falling back to many_to_one."}

\* What the last run would have left had its mode been many_to_one.
ManyToOneWouldLeave ==
    {ImageToPdfRun(impl, [settings EXCEPT !.pdf_strategy.mode = "many_to_one"],
                   inExists, images, pre.outExists, pre.outDirs, pre.out, pre.clock, runs) :
       images \in ImageLists(inFiles)}

SameFilesAsManyToOne ==
    \E m \in ManyToOneWouldLeave :
        out = m.out /\ outDirs = m.outDirs /\ outExists = m.outExists

\* C8 as stated: whatever the input directory holds, an auto_grouping run
\* leaves the files a many_to_one run would leave and logs one [OPT]-tagged
\* warning that it falls back.
C8_AutoGroupingAlwaysWarns ==
    (RanImg2Pdf /\ settings.pdf_strategy.mode = "auto_grouping") =>
        SameFilesAsManyToOne /\ Cardinality(FallbackWarnings) = 1

\* C8: an auto_grouping run leaves the files a many_to_one run would leave;
\* it logs exactly one [OPT]-tagged warning that it falls back when it found
\* at least one image, and none when it found no image to convert.
C8_AutoGroupingIsManyToOne ==
    (RanImg2Pdf /\ settings.pdf_strategy.mode = "auto_grouping") =>
        /\ SameFilesAsManyToOne
        /\ Cardinality(FallbackWarnings) = (IF DiscoveredImages # {} THEN 1 ELSE 0)
        /\ \A i \in FallbackWarnings : FormatColor(log[i]) = "BLUE"

C8_Witness ==
    /\ RanImg2Pdf
    /\ settings.pdf_strategy.mode = "auto_grouping"
    /\ Cardinality(DiscoveredImages) >= 2
    /\ MergedByLastRun # {}
    /\ FallbackWarnings # {}

\* An auto_grouping run that found no image.
C8_NoImageNoWarning ==
    /\ RanImg2Pdf
    /\ settings.pdf_strategy.mode = "auto_grouping"
    /\ inExists
    /\ DiscoveredImages = {}

(***************************************************************************)
(* Claims about either converter, checked under SpecRun.                   *)
(***************************************************************************)
Errors == {i \in 1..Len(log) : log[i].lvl = "ERROR"}

\* C9: when the input directory does not exist, either converter logs one
\* error and the process exits with status 0, having created, changed and
\* removed nothing: the output directory itself is not created.
C9_MissingInputDirectory ==
    (pc = "exited" /\ exitCode = 0 /\ ~inExists) =>
        /\ Cardinality(Errors) = 1
        /\ out = pre.out
        /\ outDirs = pre.outDirs
        /\ outExists = pre.outExists

C9_Witness ==
    /\ pc = "exited"
    /\ exitCode = 0
    /\ pre.op = "pdf2img"
    /\ ~inExists
    /\ ~outExists
    /\ Errors # {}

(***************************************************************************)
(* Claims about the PDF-to-image converter, checked under SpecPdf.         *)
(***************************************************************************)
RanPdf2Img == pc = "exited" /\ exitCode = 0 /\ pre.op = "pdf2img"

\* The PDFs a run reads, and the pages of each it gets to.
ReadablePdfs ==
    IF inExists
    THEN {e \in inFiles : ~e.nested /\ e.isFile /\ ~e.corrupt /\ EndsWith(e.name, S_dot_pdf)}
    ELSE {}

PdfStem(e) == SubStr(e.name, 1, Len(e.name) - 4)

ThreeDigits(n) ==
    IF n < 10 THEN <<"0", "0">> \o NatStr(n)
    ELSE IF n < 100 THEN <<"0">> \o NatStr(n) ELSE NatStr(n)

\* The index as a sign and at least three digits.
PaddedToThreeDigits(n) == IF n < 0 THEN <<"-">> \o ThreeDigits(-n) ELSE ThreeDigits(n)

\* The index in at least three characters, of which a minus sign is one.
PaddedToWidthThree(n) ==
    IF n >= 0 THEN ThreeDigits(n)
    ELSE IF -n < 10 THEN <<"-", "0">> \o NatStr(-n) ELSE <<"-">> \o NatStr(-n)

NamePrefix(e) ==
    IF settings.img_strategy.naming.page_naming = "original"
    THEN PdfStem(e) \o <<"_", "p", "a", "g", "e", "_">>
    ELSE <<"p", "a", "g", "e", "_">>

PagePath(Pad(_), e, i) ==
    << PdfStem(e),
       NamePrefix(e) \o Pad(settings.img_strategy.naming.start_index + i)
           \o <<".">> \o settings.img_strategy.output.image_format >>

\* Every page a run saves is at the path Pad gives it, and nothing else is
\* saved; two pages of one PDF sharing a path would leave one of them out.
PagesNamedBy(Pad(_)) ==
    /\ \A e \in ReadablePdfs :
         \A i \in 0..((IF e.badPage = 0 THEN e.pages ELSE e.badPage - 1) - 1) :
            (settings.img_strategy.output.overwrite_existing
               \/ PagePath(Pad, e, i) \notin DOMAIN pre.out)
              => /\ PagePath(Pad, e, i) \in DOMAIN out
                 /\ out[PagePath(Pad, e, i)] = ImageFile(runs, e.name, i)
    /\ \A p \in DOMAIN out :
         (out[p].kind = "image" /\ out[p].writer = runs) =>
            \E e \in ReadablePdfs : \E i \in 0..(e.pages - 1) : p = PagePath(Pad, e, i)

\* C7 as stated: page i of a PDF of stem S is saved in <output>/S/ as
\* page_<start_index + i in three digits, zero-padded>.<fmt>, with S_ before
\* it under the naming "original"; the pages of a PDF get distinct names.
C7_PageNamesThreeDigits == RanPdf2Img => PagesNamedBy(PaddedToThreeDigits)

\* C7: the same, the index being zero-padded to a width of three characters
\* of which a minus sign is one: index -1 is written -01, index 5 is 005.
C7_PageNamesWidthThree == RanPdf2Img => PagesNamedBy(PaddedToWidthThree)

C7_Witness ==
    /\ RanPdf2Img
    /\ settings.img_strategy.naming.start_index < 0
    /\ settings.img_strategy.naming.page_naming = "original"
    /\ \E e \in ReadablePdfs :
         /\ e.badPage = 0
         /\ \A i \in 0..(e.pages - 1) :
              /\ PagePath(PaddedToWidthThree, e, i) \in DOMAIN out
              /\ out[PagePath(PaddedToWidthThree, e, i)].writer = runs

\* The pages whose file was there when the last run started.
PagesFound ==
    {<<e, i>> \in ReadablePdfs \X (0..2) :
        /\ e.badPage = 0
        /\ i < e.pages
        /\ PagePath(PaddedToWidthThree, e, i) \in DOMAIN pre.out}

\* C10: with overwrite_existing = false a page whose file exists is skipped
\* with a record at INFO level and never renamed; the other pages and the
\* other PDFs are still processed; a second run creates and changes no file.
C10_ExistingPagesSkippedAndLogged ==
    (RanPdf2Img /\ ~settings.img_strategy.output.overwrite_existing) =>
        /\ Untouched(DOMAIN pre.out)
        /\ SkipsLogged({PagePath(PaddedToWidthThree, x[1], x[2])[2] : x \in PagesFound})
        /\ \A e \in ReadablePdfs : \A i \in 0..(e.pages - 1) :
             e.badPage = 0 => PagePath(PaddedToWidthThree, e, i) \in DOMAIN out
        /\ runs >= 2 => out = pre.out

\* The part of C10 that holds in both programs: everything but the record.
C10_ExistingPagesSkipped ==
    (RanPdf2Img /\ ~settings.img_strategy.output.overwrite_existing) =>
        /\ Untouched(DOMAIN pre.out)
        /\ \A e \in ReadablePdfs : \A i \in 0..(e.pages - 1) :
             e.badPage = 0 => PagePath(PaddedToWidthThree, e, i) \in DOMAIN out
        /\ runs >= 2 => out = pre.out

\* The pages of e other than the one whose save fails.
OtherPages(e) == {i \in 0..(e.pages - 1) : i # e.badPage - 1}

\* C12: a failure while saving one page is contained to that page: the error
\* is logged and every other page of the same PDF is still saved.
C12_PageFailureContained ==
    (RanPdf2Img /\ pre.out = <<>>) =>
        \A e \in ReadablePdfs :
            e.badPage # 0 =>
                /\ \E i \in Errors : log[i].arg = e.name
                /\ \A i \in OtherPages(e) :
                     PagePath(PaddedToWidthThree, e, i) \in DOMAIN out

\* What C12 leaves of the code's behaviour: the pages before the failing one
\* are saved, the failure is logged once for the PDF, the PDFs after it are
\* still converted.
C12_FailureEndsThePdf ==
    (RanPdf2Img /\ pre.out = <<>>) =>
        \A e \in ReadablePdfs :
            /\ e.badPage # 0 =>
                 /\ Cardinality({i \in Errors : log[i].arg = e.name}) = 1
                 /\ \A i \in OtherPages(e) :
                      (PagePath(PaddedToWidthThree, e, i) \in DOMAIN out) = (i < e.badPage - 1)
            /\ e.badPage = 0 =>
                 \A i \in 0..(e.pages - 1) : PagePath(PaddedToWidthThree, e, i) \in DOMAIN out

(***************************************************************************)
(* More claims about either converter, checked under SpecRun.              *)
(***************************************************************************)
DiscoveredPdfs ==
    IF inExists
    THEN {e \in inFiles : ~e.nested /\ e.isFile /\ EndsWith(e.name, <<".", "p", "d", "f">>)}
    ELSE {}

NoMatchingFile ==
    /\ pc = "exited"
    /\ exitCode = 0
    /\ inExists
    /\ pre.op = "img2pdf" => DiscoveredImages = {}
    /\ pre.op = "pdf2img" => DiscoveredPdfs = {}

NotFoundWarnings ==
    {i \in 1..Len(log) : log[i].lvl = "WARNING"
                         /\ log[i].msg[1] \in {"No images found in", "No PDFs found in"}}

\* C13: when the input directory exists and holds no matching file, the run
\* warns and creates no file and no directory, the output directory included.
C13_NoMatchingFileIsNoOp ==
    NoMatchingFile =>
        /\ NotFoundWarnings # {}
        /\ out = pre.out
        /\ outDirs = pre.outDirs
        /\ outExists = pre.outExists

\* What C13 leaves of the code's behaviour: nothing changes inside the output
\* directory, which is there afterwards.
C13_OnlyOutputDirCreated ==
    NoMatchingFile =>
        /\ Cardinality(NotFoundWarnings) = 1
        /\ out = pre.out
        /\ outDirs = pre.outDirs
        /\ outExists

(***************************************************************************)
(* More claims about the image-to-PDF converter, checked under SpecImg.    *)
(***************************************************************************)
WrittenByLastRun == {p \in DOMAIN out : out[p].writer = runs}

NamedMerged(p) == Len(p[1]) >= 6 /\ SubStr(p[1], 1, 6) = <<"m", "e", "r", "g", "e", "d">>

Warned(name) ==
    \E i \in 1..Len(log) :
        log[i].lvl = "WARNING" /\ \E j \in 1..Len(log[i].msg) : log[i].msg[j] = name

\* C14: whenever a run uses a default in place of what the document supplies
\* for an optional key (the key absent, or its value unusable, such as an
\* empty output_name), a warning naming that key is logged.
C14_EveryFallbackReported ==
    RanImg2Pdf =>
        /\ \A k \in ImgKeys \ {WorkModeKey} : k \notin doc.present => Warned(k[2])
        /\ (/\ \E p \in WrittenByLastRun : NamedMerged(p)
            /\ <<T_Pdf, "output_name">> \in doc.present
            /\ doc.val[<<T_Pdf, "output_name">>] # S_merged_pdf)
              => Warned("output_name")

\* The part of C14 that holds: every absent key of the resolver is reported.
C14_AbsentKeysReported ==
    RanImg2Pdf =>
        \A k \in ImgKeys \ {WorkModeKey} : k \notin doc.present => Warned(k[2])

\* C16: a one_to_one run into an empty output directory with no failing
\* image writes as many PDFs as it found images, also when two images share
\* a stem; with overwrite_existing = true every image keeps its own PDF.
C16_EveryImageOwnPdf ==
    (/\ RanImg2Pdf
     /\ settings.pdf_strategy.mode = "one_to_one"
     /\ pre.out = <<>>
     /\ \A e \in DiscoveredImages : ~e.corrupt)
        => /\ Cardinality(WrittenByLastRun) = Cardinality(DiscoveredImages)
           /\ settings.pdf_strategy.overwrite_existing =>
                \A e \in DiscoveredImages :
                    \E p \in WrittenByLastRun : out[p].pages = <<e.name>>

\* What C16 leaves of the code's behaviour: one PDF for each stem.
C16_OnePdfForEachStem ==
    (/\ RanImg2Pdf
     /\ settings.pdf_strategy.mode = "one_to_one"
     /\ pre.out = <<>>
     /\ \A e \in DiscoveredImages : ~e.corrupt)
        => WrittenByLastRun = {<<StemPdf(e.name)>> : e \in DiscoveredImages}

\* C17: a failed conversion leaves its target as it was: every path holds
\* what it held before the run or a complete PDF, never an empty file; so a
\* later one_to_one run without overwrite tries a failed image again.
C17_FailedConversionLeavesTarget ==
    RanImg2Pdf =>
        /\ \A p \in DOMAIN out :
             \/ p \in DOMAIN pre.out /\ out[p] = pre.out[p]
             \/ out[p].kind = "pdf"
        /\ (/\ runs >= 2
            /\ settings.pdf_strategy.mode = "one_to_one"
            /\ ~settings.pdf_strategy.overwrite_existing
            /\ pre.outDirs = {})
              => \A e \in DiscoveredImages :
                    (e.corrupt /\ <<StemPdf(e.name)>> \in DOMAIN pre.out
                       /\ pre.out[<<StemPdf(e.name)>>].kind = "empty")
                      => \E i \in Errors : log[i].arg = e.name

(***************************************************************************)
(* Claims about runs taken a statement at a time: C11 is checked under     *)
(* SpecItems, C15 under SpecSteps.                                         *)
(***************************************************************************)
\* The runs whose unit of work is the item: one_to_one and PDF-to-image.
Itemized(p) ==
    /\ Active(p)
    /\ settings.work_mode = "pdf2img" \/ settings.pdf_strategy.mode = "one_to_one"

DiscoveredNames ==
    IF settings.work_mode = "img2pdf"
    THEN {e.name : e \in DiscoveredImages}
    ELSE {e.name : e \in DiscoveredPdfs}

\* The discovered items whose conversion fails whichever process tries it
\* first: an image or a PDF the codec rejects, a PDF with a page that cannot
\* be saved.
FailingNames ==
    IF settings.work_mode = "img2pdf"
    THEN {e.name : e \in {x \in DiscoveredImages :
                             x.corrupt /\ <<StemPdf(x.name)>> \notin DOMAIN pre.out}}
    ELSE {e.name : e \in {x \in DiscoveredPdfs : x.corrupt \/ x.badPage # 0}}

AttemptedAll(p) ==
    /\ proc[p].pc = "done"
    /\ {proc[p].attempted[i] : i \in 1..Len(proc[p].attempted)} = DiscoveredNames
    /\ Ascending(proc[p].attempted)
    /\ \A n \in FailingNames : \E i \in Errors : log[i].arg = n

\* C11: once a run has found at least one item, it ends after taking every
\* discovered item exactly once, in ascending order of name; the failure of
\* an image (one_to_one) or of a PDF is logged as an error and the items
\* after it are still taken; run() returns normally.
C11_EveryItemAttempted == \A p \in Procs : Itemized(p) ~> AttemptedAll(p)

C11_Witness ==
    /\ settings # NoSettings
    /\ settings.work_mode = "img2pdf"
    /\ AttemptedAll(1)
    /\ proc[1].attempted = <<N_a_jpg, N_a_png, N_k_jpg>>
    /\ \E i \in Errors : log[i].arg = N_a_jpg
    /\ <<<<"k", ".", "p", "d", "f">>>> \in DOMAIN out

\* Two processes found the same target free and both wrote it.
Raced(p, q, t) ==
    /\ p # q
    /\ t \in proc[p].free \cap proc[q].free
    /\ t \in proc[p].wrote \cap proc[q].wrote

\* C15: the collision check and the write are separate steps.  Two runs at the
\* same time with overwrite_existing = false can both find one target free
\* and both write it, the later write replacing the earlier one; runs that
\* do not overlap in time never do.
C15_RaceOnlyWhenOverlapping ==
    \A p, q \in Procs : \A t \in proc[p].free :
        Raced(p, q, t) => proc[p].overlapped /\ proc[q].overlapped

C15_Witness ==
    /\ settings # NoSettings
    /\ ~settings.pdf_strategy.overwrite_existing
    /\ settings.work_mode = "img2pdf"
    /\ \E p, q \in Procs : \E t \in proc[p].free :
         /\ Raced(p, q, t)
         /\ proc[p].pc = "done"
         /\ proc[q].pc = "done"
         /\ <<t>> \in DOMAIN out
         /\ out[<<t>>].writer = q

====
